---------------------------- MODULE Spec2Model ----------------------------
(***************************************************************************)
(* A model of Seq2Seq/py/data_utils.py: vocabulary construction and        *)
(* loading, reconstruction of decoded id sequences into text, the          *)
(* frequency / weight table, and the rare-word reweighting of a batch.     *)
(*                                                                         *)
(* A token (a Python byte string) is a sequence of one-character strings.  *)
(* A dict is a sequence of <<key, value>> pairs in insertion order.        *)
(***************************************************************************)
EXTENDS Integers, Sequences, FiniteSets, TLC

(***************************************************************************)
(* Bounds of the model.                                                    *)
(***************************************************************************)
MaxLines == 2
MaxLineLen == 2
MaxVocabSize == 6
MaxInputs == 2
MaxRows == 1
MaxCols == 2
MaxAlpha == 1
MaxIds == 3
SrcLen == 2

(***************************************************************************)
(* Program constants.                                                      *)
(***************************************************************************)
_PAD == <<"_", "P", "A", "D">>
_GO == <<"_", "G", "O">>
_EOS == <<"_", "E", "O", "S">>
_UNK == <<"_", "U", "N", "K">>
_START_VOCAB == <<_PAD, _GO, _EOS, _UNK>>

PAD_ID == 0
GO_ID == 1
EOS_ID == 2
UNK_ID == 3

VARIABLES
  pc,                   \* which step of the modelled run comes next
  normalize_digits,     \* create_vocabulary: argument
  max_vocabulary_size,  \* create_vocabulary: argument
  counter,              \* create_vocabulary: lines read so far
  vocab,                \* create_vocabulary: the dict word -> count
  vocab_file,           \* the vocabulary file: its lines, newline included
  rev_vocab,            \* initialize_vocabulary: the list id -> token
  vocab_ids,            \* initialize_vocabulary: the dict token -> id
  corpus_count,         \* observer: occurrences of each word in the lines read
  first_seen,           \* observer: the words read, in first-observed order
  ttable,               \* ids_to_tokens: argument, None or a dict
  lines_read,           \* ids_to_tokens: elements of lines taken so far
  sent_idx,             \* ids_to_tokens: sent_idx
  line,                 \* ids_to_tokens: the element of lines being processed
  word_idxs,            \* ids_to_tokens: the ids of line enumerated so far
  attention_history,    \* ids_to_tokens: their attention rows
  words,                \* ids_to_tokens: words
  sent,                 \* ids_to_tokens: the last line written to dest_path
  dest_count,           \* ids_to_tokens: number of lines written to dest_path
  emitted,              \* observer: per position of line, the words appended
  null_read,            \* observer: None elements of lines taken so far
  freq,                 \* frequency: the dict d, id -> count
  weight_file,          \* output_weight: the lines written, <<id, weight>>
  file_lines,           \* observer: lines of train_file read so far
  occurrences,          \* observer: occurrences of each id in those lines
  target_outputs,       \* check_rare_weights: argument, a matrix of ids
  vocab_weights,        \* check_rare_weights: argument, the dict id -> weight
  alpha,                \* check_rare_weights: argument
  log_weight,           \* check_rare_weights: argument
  alpha_decay,          \* check_rare_weights: argument
  n_decay,              \* check_rare_weights: argument
  new_weights,          \* check_rare_weights: new_weights
  rows_done             \* check_rare_weights: i, the rows processed so far

vocabVars == <<normalize_digits, max_vocabulary_size, counter, vocab,
               vocab_file, rev_vocab, vocab_ids, corpus_count, first_seen>>

reconVars == <<ttable, lines_read, sent_idx, line, word_idxs,
               attention_history, words, sent, dest_count, emitted, null_read>>

freqVars == <<freq, weight_file, file_lines, occurrences>>

rareVars == <<target_outputs, vocab_weights, alpha, log_weight, alpha_decay,
              n_decay, new_weights, rows_done>>

vars == <<pc, vocabVars, reconVars, freqVars, rareVars>>

None == "None"

(***************************************************************************)
(* Byte strings.                                                           *)
(***************************************************************************)
Whitespace == {" ", "\n", "\t"}
Digits == {"0", "1", "2"}
NL == <<"\n">>

\* The tokens the modelled corpora are made of.
TokenPool == {<<"b">>, <<"a", "1">>, <<"a", "2">>, _UNK}

RECURSIVE LStrip(_)
LStrip(s) ==
  IF s # <<>> /\ Head(s) \in Whitespace THEN LStrip(Tail(s)) ELSE s

RECURSIVE RStrip(_)
RStrip(s) ==
  IF s # <<>> /\ s[Len(s)] \in Whitespace
  THEN RStrip(SubSeq(s, 1, Len(s) - 1))
  ELSE s

\* bytes.strip()
Strip(s) == RStrip(LStrip(s))

\* bytes.split(): the maximal runs of non-whitespace characters, in order.
\* cur is the run being read.
RECURSIVE SplitFrom(_, _)
SplitFrom(s, cur) ==
  IF s = <<>>
  THEN IF cur = <<>> THEN <<>> ELSE <<cur>>
  ELSE IF Head(s) \in Whitespace
       THEN IF cur = <<>>
            THEN SplitFrom(Tail(s), <<>>)
            ELSE <<cur>> \o SplitFrom(Tail(s), <<>>)
       ELSE SplitFrom(Tail(s), Append(cur, Head(s)))

Split(s) == SplitFrom(s, <<>>)

basic_tokenizer(sentence) == Split(Strip(sentence))

\* _DIGIT_RE.sub(b"0", w)
DigitSub(w) == [i \in 1..Len(w) |-> IF w[i] \in Digits THEN "0" ELSE w[i]]

\* " ".join(words)
RECURSIVE Join(_)
Join(ws) ==
  IF ws = <<>> THEN <<>>
  ELSE IF Len(ws) = 1 THEN ws[1]
  ELSE ws[1] \o <<" ">> \o Join(Tail(ws))

\* The token sequences of a line of a corpus file.
TokenSeqs(n) == UNION {[1..k -> TokenPool] : k \in 0..n}

(***************************************************************************)
(* Dicts.                                                                  *)
(***************************************************************************)
Keys(d) == {d[i][1] : i \in DOMAIN d}
Get(d, k) == LET i == CHOOSE i \in DOMAIN d : d[i][1] = k IN d[i][2]

\* d[k] = v
Put(d, k, v) ==
  IF k \in Keys(d)
  THEN [i \in DOMAIN d |-> IF d[i][1] = k THEN <<k, v>> ELSE d[i]]
  ELSE Append(d, <<k, v>>)

\* The orders in which iterating over d can yield its keys.  The insertion
\* order is one of them; the interpreter's hash order can be any other.
IterOrders(d) ==
  {p \in [1..Len(d) -> Keys(d)] : \A i, j \in 1..Len(d) : i # j => p[i] # p[j]}

(***************************************************************************)
(* create_vocabulary                                                       *)
(***************************************************************************)
\* lines 163-168: count the (normalized) words of one line
RECURSIVE CountWords(_, _, _)
CountWords(d, tokens, norm) ==
  IF tokens = <<>> THEN d
  ELSE LET w == Head(tokens)
           word == IF norm THEN DigitSub(w) ELSE w
       IN CountWords(IF word \in Keys(d)
                     THEN Put(d, word, Get(d, word) + 1)
                     ELSE Put(d, word, 1),
                     Tail(tokens), norm)

\* s, sorted by key, with x added after the elements whose key is not smaller
RECURSIVE InsertDescending(_, _, _)
InsertDescending(s, x, d) ==
  IF s = <<>> THEN <<x>>
  ELSE IF Get(d, Head(s)) >= Get(d, x)
       THEN <<Head(s)>> \o InsertDescending(Tail(s), x, d)
       ELSE <<x>> \o s

\* The same with the smaller key first.
RECURSIVE InsertAscending(_, _, _)
InsertAscending(s, x, d) ==
  IF s = <<>> THEN <<x>>
  ELSE IF Get(d, Head(s)) <= Get(d, x)
       THEN <<Head(s)>> \o InsertAscending(Tail(s), x, d)
       ELSE <<x>> \o s

\* sorted(vocab, key=vocab.get) without reverse=True
RECURSIVE SortAscending(_, _)
SortAscending(keys, d) ==
  IF keys = <<>> THEN <<>>
  ELSE InsertAscending(SortAscending(SubSeq(keys, 1, Len(keys) - 1), d),
                       keys[Len(keys)], d)

\* sorted(vocab, key=vocab.get, reverse=True) over the iteration order keys:
\* a stable sort, equal counts keep the order of keys
RECURSIVE SortedByCount(_, _)
SortedByCount(keys, d) ==
  IF keys = <<>> THEN <<>>
  ELSE InsertDescending(SortedByCount(SubSeq(keys, 1, Len(keys) - 1), d),
                        keys[Len(keys)], d)

\* sorted(...) + _START_VOCAB
ReservedLast(sorted) == sorted \o _START_VOCAB

\* line 169
WithStartVocab(sorted) == _START_VOCAB \o sorted

\* vocab_list[-max_vocabulary_size:]
DropHead(list, max) ==
  IF Len(list) > max THEN SubSeq(list, Len(list) - max + 1, Len(list)) ELSE list

\* vocab_list[:max_vocabulary_size + 1]
KeepOneMore(list, max) ==
  IF Len(list) > max THEN SubSeq(list, 1, max + 1) ELSE list

\* lines 170-171
Truncate(list, max) ==
  IF Len(list) > max THEN SubSeq(list, 1, max) ELSE list

\* line 169 for one iteration order of the dict
VocabList(keys, d) == WithStartVocab(SortedByCount(keys, d))

\* The words of a corpus, normalized or not.
AllWords == TokenPool \cup {DigitSub(t) : t \in TokenPool}

Normalized(ts, norm) ==
  [i \in 1..Len(ts) |-> IF norm THEN DigitSub(ts[i]) ELSE ts[i]]

\* seen, followed by the words of ws it lacks, in the order ws has them
RECURSIVE ObserveOrder(_, _)
ObserveOrder(seen, ws) ==
  IF ws = <<>> THEN seen
  ELSE IF \E i \in DOMAIN seen : seen[i] = Head(ws)
       THEN ObserveOrder(seen, Tail(ws))
       ELSE ObserveOrder(Append(seen, Head(ws)), Tail(ws))

\* lines 157-168: one line of the data file, holding the tokens ts
ReadLine ==
  /\ pc = "count"
  /\ counter < MaxLines
  /\ \E ts \in TokenSeqs(MaxLineLen) :
       LET data_line == Join(ts) \o NL
           ws == Normalized(ts, normalize_digits)
       IN /\ vocab' =
               CountWords(vocab, basic_tokenizer(data_line), normalize_digits)
          /\ corpus_count' =
               [w \in AllWords |->
                  corpus_count[w] + Cardinality({i \in DOMAIN ws : ws[i] = w})]
          /\ first_seen' = ObserveOrder(first_seen, ws)
  /\ counter' = counter + 1
  /\ UNCHANGED <<pc, normalize_digits, max_vocabulary_size, vocab_file,
                 rev_vocab, vocab_ids, reconVars, freqVars, rareVars>>

\* lines 169-174: end of the data file, the vocabulary file is written
WriteVocabulary ==
  /\ pc = "count"
  /\ \E keys \in IterOrders(vocab) :
       vocab_file' =
         LET vocab_list == Truncate(VocabList(keys, vocab), max_vocabulary_size)
         IN [i \in 1..Len(vocab_list) |-> vocab_list[i] \o NL]
  /\ pc' = "written"
  /\ UNCHANGED <<normalize_digits, max_vocabulary_size, counter, vocab,
                 rev_vocab, vocab_ids, corpus_count, first_seen, reconVars, freqVars, rareVars>>

(***************************************************************************)
(* initialize_vocabulary                                                   *)
(***************************************************************************)
\* line 197: dict([(x, y) for (y, x) in enumerate(rev_vocab)]); a later pair
\* with the same key replaces the value of the earlier one
RECURSIVE DictOfList(_, _, _)
DictOfList(d, list, y) ==
  IF list = <<>> THEN d
  ELSE DictOfList(Put(d, Head(list), y), Tail(list), y + 1)

\* line 196
StripLines(lines) == [i \in 1..Len(lines) |-> Strip(lines[i])]

\* lines 192-198
InitializeVocabulary ==
  /\ pc = "written"
  /\ rev_vocab' = StripLines(vocab_file)
  /\ vocab_ids' = DictOfList(<<>>, StripLines(vocab_file), 0)
  /\ pc' = "loaded"
  /\ UNCHANGED <<normalize_digits, max_vocabulary_size, counter, vocab,
                 vocab_file, corpus_count, first_seen, reconVars, freqVars, rareVars>>

\* The state of a function that is not running.
IdleVocab ==
  /\ normalize_digits = FALSE
  /\ max_vocabulary_size = 0
  /\ counter = 0
  /\ vocab = <<>>
  /\ vocab_file = <<>>
  /\ rev_vocab = <<>>
  /\ vocab_ids = <<>>
  /\ corpus_count = <<>>
  /\ first_seen = <<>>

IdleRecon ==
  /\ ttable = None
  /\ lines_read = 0
  /\ sent_idx = 0
  /\ line = None
  /\ word_idxs = <<>>
  /\ attention_history = <<>>
  /\ words = <<>>
  /\ sent = <<>>
  /\ dest_count = 0
  /\ emitted = <<>>
  /\ null_read = 0

IdleFreq ==
  /\ freq = <<>>
  /\ weight_file = <<>>
  /\ file_lines = 0
  /\ occurrences = <<>>

IdleRare ==
  /\ target_outputs = <<>>
  /\ vocab_weights = <<>>
  /\ alpha = 0
  /\ log_weight = FALSE
  /\ alpha_decay = 0
  /\ n_decay = 0
  /\ new_weights = <<>>
  /\ rows_done = 0

InitVocab ==
  /\ pc = "count"
  /\ IdleRecon
  /\ IdleFreq
  /\ IdleRare
  /\ normalize_digits \in BOOLEAN
  /\ max_vocabulary_size \in 0..MaxVocabSize
  /\ counter = 0
  /\ vocab = <<>>
  /\ vocab_file = <<>>
  /\ rev_vocab = <<>>
  /\ vocab_ids = <<>>
  /\ corpus_count = [w \in AllWords |-> 0]
  /\ first_seen = <<>>

NextVocab == ReadLine \/ WriteVocabulary \/ InitializeVocabulary

SpecVocab == InitVocab /\ [][NextVocab]_vars


(***************************************************************************)
(* ids_to_tokens                                                           *)
(***************************************************************************)
\* The file at to_vocab_path, and the list d loaded from it (lines 403-408).
ToVocabFile ==
  LET list == _START_VOCAB \o << <<"a">> >>
  IN [i \in 1..Len(list) |-> list[i] \o NL]
ToVocab == StripLines(ToVocabFile)

\* The ids a decoded sentence is made of.
IdPool == 0..(Len(ToVocab) - 1)

DigitChar == <<"0", "1", "2", "3", "4", "5", "6", "7", "8", "9">>

\* Word p of source sentence r (both from 0), in the order of the source file.
OrigWord(r, p) == <<"s", DigitChar[r + 1], DigitChar[p + 1]>>
OrigSentence(r) == [p \in 1..SrcLen |-> OrigWord(r, p - 1)]

Reverse(s) == [i \in 1..Len(s) |-> s[Len(s) + 1 - i]]

\* load_data_orig_reverse: one reversed token list per source sentence.
test_source_orig_tok == [r \in 1..MaxInputs |-> Reverse(OrigSentence(r - 1))]

\* The candidates a translation table lists for a source word.
Candidates(w) == << <<"t">> \o w, <<"u">> \o w >>

\* The translation tables of the model: none, or one that knows the first word
\* of the first source sentence and the last word of the second.
TTableDict ==
  << <<OrigWord(0, 0), Candidates(OrigWord(0, 0))>>,
     <<OrigWord(1, SrcLen - 1), Candidates(OrigWord(1, SrcLen - 1))>> >>
TTables == {None, TTableDict}

\* The attention rows of the positions holding _UNK.  The row of any other
\* position is never read; the model gives those positions the uniform row.
AttentionRows == [1..SrcLen -> {1, 2}]
UniformRow == [p \in 1..SrcLen |-> 1]

\* The last index (from 0) holding the maximum.
ArgMaxLast(dist) ==
  (CHOOSE p \in DOMAIN dist :
     /\ \A q \in DOMAIN dist : dist[q] <= dist[p]
     /\ \A q \in DOMAIN dist : q > p => dist[q] < dist[p]) - 1

\* np.argmax: the first index (from 0) holding the maximum
ArgMax(dist) ==
  (CHOOSE p \in DOMAIN dist :
     /\ \A q \in DOMAIN dist : dist[q] <= dist[p]
     /\ \A q \in DOMAIN dist : q < p => dist[q] < dist[p]) - 1

\* lines 431-444: the word that replaces an _UNK aligned to position pos
UnkReplacement(table, source_tokens, pos) ==
  LET attent_source_word == source_tokens[pos + 1]
  IN IF attent_source_word \in Keys(table)
     THEN Get(table, attent_source_word)[1]
     ELSE attent_source_word

\* lines 424-445: the word appended for an _UNK with attention row dist
UnkWord(table, dist, sidx) ==
  IF table # None
  THEN UnkReplacement(table, test_source_orig_tok[sidx + 1], ArgMax(dist))
  ELSE _UNK

\* lines 413-416: the next element of lines is None
NullLine ==
  /\ pc = "next_line"
  /\ lines_read < MaxInputs
  /\ line' = None
  /\ lines_read' = lines_read + 1
  /\ sent' = NL
  /\ dest_count' = dest_count + 1
  /\ null_read' = null_read + 1
  /\ UNCHANGED <<pc, vocabVars, freqVars, rareVars, ttable, sent_idx, word_idxs, attention_history,
                 words, emitted>>

\* lines 413-419: the next element of lines is a decoded sentence.  sent keeps
\* the previous line until line 451 assigns it and is not read before that;
\* the model clears it here.
BeginLine ==
  /\ pc = "next_line"
  /\ lines_read < MaxInputs
  /\ line' = "sentence"
  /\ lines_read' = lines_read + 1
  /\ words' = <<>>
  /\ word_idxs' = <<>>
  /\ attention_history' = <<>>
  /\ emitted' = <<>>
  /\ sent' = <<>>
  /\ pc' = "in_line"
  /\ UNCHANGED <<vocabVars, freqVars, rareVars, ttable, sent_idx, dest_count, null_read>>

\* lines 420-422: the next id of the sentence is _EOS
SkipEOS ==
  /\ pc = "in_line"
  /\ Len(word_idxs) < MaxIds
  /\ attention_history' = Append(attention_history, UniformRow)
  /\ word_idxs' = Append(word_idxs, 2)
  /\ emitted' = Append(emitted, <<>>)
  /\ UNCHANGED <<pc, vocabVars, freqVars, rareVars, ttable, lines_read, sent_idx, line, words, sent,
                 dest_count, null_read>>

\* lines 420-446: the next id of the sentence is _UNK
ReplaceUNK ==
  /\ pc = "in_line"
  /\ Len(word_idxs) < MaxIds
  /\ \E dist \in AttentionRows :
       LET target_word == UnkWord(ttable, dist, sent_idx)
       IN /\ attention_history' = Append(attention_history, dist)
          /\ words' = Append(words, target_word)
          /\ emitted' = Append(emitted, <<target_word>>)
  /\ word_idxs' = Append(word_idxs, 3)
  /\ UNCHANGED <<pc, vocabVars, freqVars, rareVars, ttable, lines_read, sent_idx, line, sent,
                 dest_count, null_read>>

\* lines 420-449: the next id of the sentence is any other id
EmitWord ==
  /\ pc = "in_line"
  /\ Len(word_idxs) < MaxIds
  /\ \E word_idx \in IdPool \ {2, 3} :
       LET target_word == ToVocab[word_idx + 1]
       IN /\ word_idxs' = Append(word_idxs, word_idx)
          /\ attention_history' = Append(attention_history, UniformRow)
          /\ words' = Append(words, target_word)
          /\ emitted' = Append(emitted, <<target_word>>)
  /\ UNCHANGED <<pc, vocabVars, freqVars, rareVars, ttable, lines_read, sent_idx, line, sent,
                 dest_count, null_read>>

\* lines 451-454: the sentence has no more ids
EndLine ==
  /\ pc = "in_line"
  /\ sent' = Join(words) \o NL
  /\ dest_count' = dest_count + 1
  /\ sent_idx' = sent_idx + 1
  /\ pc' = "next_line"
  /\ UNCHANGED <<vocabVars, freqVars, rareVars, ttable, lines_read, line, word_idxs,
                 attention_history, words, emitted, null_read>>

\* line 456: lines has no more elements
CloseDest ==
  /\ pc = "next_line"
  /\ pc' = "closed"
  /\ UNCHANGED <<vocabVars, freqVars, rareVars, reconVars, freqVars, rareVars>>

InitRecon ==
  /\ pc = "next_line"
  /\ IdleVocab
  /\ IdleFreq
  /\ IdleRare
  /\ ttable \in TTables
  /\ lines_read = 0
  /\ sent_idx = 0
  /\ line = None
  /\ word_idxs = <<>>
  /\ attention_history = <<>>
  /\ words = <<>>
  /\ sent = <<>>
  /\ dest_count = 0
  /\ emitted = <<>>
  /\ null_read = 0

NextRecon ==
  NullLine \/ BeginLine \/ SkipEOS \/ ReplaceUNK \/ EmitWord \/ EndLine \/ CloseDest

SpecRecon == InitRecon /\ [][NextRecon]_vars

(***************************************************************************)
(* frequency and output_weight                                             *)
(***************************************************************************)
\* The ids an encoded file is made of.
FileIds == {2, 3, 4, 5}

\* str(tok) and int(x) for the one-digit ids of the model
StrOfId(tok) == <<DigitChar[tok + 1]>>
IntOfStr(x) == (CHOOSE k \in 1..Len(DigitChar) : DigitChar[k] = x[1]) - 1

\* line 255: a line of the ids file
IdsLine(token_ids) ==
  Join([k \in 1..Len(token_ids) |-> StrOfId(token_ids[k])]) \o NL

\* line 465
ParseIds(file_line) ==
  LET xs == Split(Strip(file_line)) IN [k \in 1..Len(xs) |-> IntOfStr(xs[k])]

\* lines 467-470
RECURSIVE CountIds(_, _)
CountIds(d, ids) ==
  IF ids = <<>> THEN d
  ELSE LET word == Head(ids)
           d0 == IF word \notin Keys(d) THEN Put(d, word, 0) ELSE d
       IN CountIds(Put(d0, word, Get(d0, word) + 1), Tail(ids))

\* sum(freq.values())
RECURSIVE SumValues(_)
SumValues(d) == IF d = <<>> THEN 0 ELSE Head(d)[2] + SumValues(Tail(d))

\* sorted(freq): the keys in ascending order
RECURSIVE SortedKeys(_)
SortedKeys(ks) ==
  IF ks = {} THEN <<>>
  ELSE LET least == CHOOSE k \in ks : \A o \in ks : k <= o
       IN <<least>> \o SortedKeys(ks \ {least})

\* line 483: s*1.0 / freq[i], as the fraction <<numerator, denominator>>
Weight(s, count) == <<s, count>>

\* lines 463-470: one line of train_file
FrequencyLine ==
  /\ pc = "frequency"
  /\ file_lines < MaxLines
  /\ \E ids \in UNION {[1..k -> FileIds] : k \in 0..MaxLineLen} :
       LET file_words == ParseIds(IdsLine(ids))
       IN /\ freq' = CountIds(Put(freq, 2, Get(freq, 2) + 1), file_words)
          /\ occurrences' =
               [w \in FileIds |->
                  occurrences[w] + Cardinality({k \in DOMAIN ids : ids[k] = w})]
  /\ file_lines' = file_lines + 1
  /\ UNCHANGED <<pc, weight_file, vocabVars, reconVars, rareVars>>

\* lines 471-486: train_file is at its end; the weights are written up to the
\* first id whose count is 0, where the division raises ZeroDivisionError
OutputWeight ==
  /\ pc = "frequency"
  /\ LET s == SumValues(freq)
         indexs == SortedKeys(Keys(freq))
         zeros == {k \in DOMAIN indexs : Get(freq, indexs[k]) = 0}
         last == IF zeros = {} THEN Len(indexs)
                 ELSE (CHOOSE k \in zeros : \A o \in zeros : k <= o) - 1
     IN /\ weight_file' =
             [k \in 1..last |-> <<indexs[k], Weight(s, Get(freq, indexs[k]))>>]
        /\ pc' = IF zeros = {} THEN "weights_written" ELSE "ZeroDivisionError"
  /\ UNCHANGED <<freq, file_lines, occurrences, vocabVars, reconVars, rareVars>>

InitFreq ==
  /\ pc = "frequency"
  /\ IdleVocab
  /\ IdleRecon
  /\ IdleRare
  /\ freq = << <<2, 0>> >>
  /\ weight_file = <<>>
  /\ file_lines = 0
  /\ occurrences = [w \in FileIds |-> 0]

NextFreq == FrequencyLine \/ OutputWeight

SpecFreq == InitFreq /\ [][NextFreq]_vars

(***************************************************************************)
(* check_rare_weights                                                      *)
(*                                                                         *)
(* A float is the fraction <<numerator, denominator>> in lowest terms;     *)
(* <<0, 0>> is nan and <<1, 0>> is inf, what numpy gives for 0/0 and x/0.  *)
(* Rounding is not modelled.                                               *)
(***************************************************************************)
RECURSIVE GCD(_, _)
GCD(a, b) == IF b = 0 THEN a ELSE GCD(b, a % b)

Frac(n, d) == IF d = 0 THEN <<IF n = 0 THEN 0 ELSE 1, 0>>
              ELSE LET g == GCD(n, d) IN <<n \div g, d \div g>>

NaN == <<0, 0>>
Zero == <<0, 1>>
One == <<1, 1>>
IsNaN(x) == x = NaN
IsFinite(x) == x[2] # 0

\* x + y
FAdd(x, y) ==
  IF IsNaN(x) \/ IsNaN(y) THEN NaN
  ELSE IF ~IsFinite(x) \/ ~IsFinite(y) THEN <<1, 0>>
  ELSE LET g == GCD(x[2], y[2])
       IN Frac(x[1] * (y[2] \div g) + y[1] * (x[2] \div g), (x[2] \div g) * y[2])

\* x * y
FMul(x, y) ==
  IF IsNaN(x) \/ IsNaN(y) THEN NaN
  ELSE IF ~IsFinite(x) \/ ~IsFinite(y)
       THEN (IF x[1] = 0 \/ y[1] = 0 THEN NaN ELSE <<1, 0>>)
  ELSE LET x1 == Frac(x[1], y[2])
           y1 == Frac(y[1], x[2])
       IN Frac(x1[1] * y1[1], x1[2] * y1[2])

\* x / y, the operands not negative: x/0 is inf, 0/0 is nan
FDiv(x, y) ==
  IF IsNaN(x) \/ IsNaN(y) THEN NaN
  ELSE IF y[2] = 0 THEN (IF x[2] = 0 THEN NaN ELSE Zero)
  ELSE IF y[1] = 0 THEN (IF x[1] = 0 THEN NaN ELSE <<1, 0>>)
  ELSE FMul(x, <<y[2], y[1]>>)

\* np.power(x, a) for an exponent a in Nat; np.power(0.0, 0) is 1.0
RECURSIVE FPow(_, _)
FPow(x, a) == IF a = 0 THEN One ELSE FMul(x, FPow(x, a - 1))

\* np.power(alpha_decay, n_decay) for integers
RECURSIVE IntPow(_, _)
IntPow(b, e) == IF e = 0 THEN 1 ELSE b * IntPow(b, e - 1)

\* The natural logarithm of 1..6, in hundredths.
LnHundredths == <<0, 69, 110, 139, 161, 179>>

\* np.log(x) for a fraction of numbers in 1..6, to two decimals
FLog(x) == Frac(LnHundredths[x[1]] - LnHundredths[x[2]], 100)

\* lines 500-503: the term a known id adds to s
RawWeight(weights, w, a, log) ==
  IF log THEN FPow(FLog(Get(weights, w)), a) ELSE FPow(Get(weights, w), a)

\* lines 495-504: s and ns of a row, as <<s, ns>>
RECURSIVE RowSums(_, _, _, _)
RowSums(ids, weights, a, log) ==
  IF ids = <<>> THEN <<Zero, 0>>
  ELSE LET rest == RowSums(Tail(ids), weights, a, log)
       IN IF Head(ids) \in Keys(weights)
          THEN <<FAdd(RawWeight(weights, Head(ids), a, log), rest[1]), rest[2] + 1>>
          ELSE rest

\* The row normalized to the number of its columns, n, instead of ns.
RowWeightsOverColumns(ids, weights, a, log) ==
  LET sums == RowSums(ids, weights, a, log)
  IN [j \in 1..Len(ids) |->
        IF ids[j] \in Keys(weights)
        THEN FMul(FDiv(RawWeight(weights, ids[j], a, log), sums[1]),
                  <<Len(ids), 1>>)
        ELSE Zero]

\* lines 495-511: row i of new_weights
RowWeights(ids, weights, a, log) ==
  LET sums == RowSums(ids, weights, a, log)
  IN [j \in 1..Len(ids) |->
        IF ids[j] \in Keys(weights)
        THEN FMul(FDiv(RawWeight(weights, ids[j], a, log), sums[1]),
                  <<sums[2], 1>>)
        ELSE Zero]

\* line 490
EffectiveAlpha == IntPow(alpha_decay, n_decay) * alpha

\* lines 494-511: one turn of the loop over the rows
ReweightRow ==
  /\ pc = "rows"
  /\ rows_done < Len(target_outputs)
  /\ new_weights' =
       [new_weights EXCEPT ![rows_done + 1] =
          RowWeights(target_outputs[rows_done + 1], vocab_weights,
                     EffectiveAlpha, log_weight)]
  /\ rows_done' = rows_done + 1
  /\ UNCHANGED <<pc, target_outputs, vocab_weights, alpha, log_weight,
                 alpha_decay, n_decay, vocabVars, reconVars, freqVars>>

\* lines 513-515: the loop is over, new_weights is returned
ReturnWeights ==
  /\ pc = "rows"
  /\ rows_done = Len(target_outputs)
  /\ pc' = "returned"
  /\ UNCHANGED <<vocabVars, reconVars, freqVars, rareVars>>

\* The ids of a batch; 0 (_PAD) has no weight.
BatchIds == {0, 2, 5}

\* The weight tables of the model: each of the ids 2 and 5 is absent or has
\* one of the weights output_weight can give it.
WeightTables ==
  {SelectSeq(<< <<2, w2>>, <<5, w5>> >>, LAMBDA e : e[2] # NaN) :
     w2 \in {NaN, One, <<2, 1>>}, w5 \in {NaN, One, <<4, 3>>}}

InitRare ==
  /\ pc = "rows"
  /\ IdleVocab
  /\ IdleRecon
  /\ IdleFreq
  /\ \E m \in 1..MaxRows, n \in 1..MaxCols :
       /\ target_outputs \in [1..m -> [1..n -> BatchIds]]
       /\ new_weights = [i \in 1..m |-> [j \in 1..n |-> Zero]]
  /\ vocab_weights \in WeightTables
  /\ alpha \in 0..MaxAlpha
  /\ log_weight \in BOOLEAN
  /\ alpha_decay \in {0, 1}
  /\ n_decay \in {0, 1}
  /\ rows_done = 0

NextRare == ReweightRow \/ ReturnWeights

SpecRare == InitRare /\ [][NextRare]_vars

(***************************************************************************)
(* Properties of create_vocabulary and initialize_vocabulary.              *)
(***************************************************************************)
Min(a, b) == IF a < b THEN a ELSE b

Written == pc \in {"written", "loaded"}

\* The entries of the vocabulary file: each line without its newline.
Entry(i) == SubSeq(vocab_file[i], 1, Len(vocab_file[i]) - 1)
Entries == {Entry(i) : i \in DOMAIN vocab_file}
DistinctTokenCount == Cardinality({w \in AllWords : corpus_count[w] > 0})

\* The positions of the file that hold non-reserved entries (ids >= 4).
RankedPositions == {i \in DOMAIN vocab_file : i > 4}

\* C3: with max_vocabulary_size >= 4 the written vocabulary starts with
\* _PAD, _GO, _EOS, _UNK, in that order, whatever the corpus holds.
C3_ReservedFirst ==
  (Written /\ max_vocabulary_size >= 4) =>
    /\ Len(vocab_file) >= 4
    /\ \A i \in 1..4 : Entry(i) = _START_VOCAB[i]

C3_Witness ==
  /\ pc = "written"
  /\ max_vocabulary_size >= 4
  /\ corpus_count[_UNK] > 0
  /\ DistinctTokenCount >= 2
  /\ Len(vocab_file) = max_vocabulary_size

\* C4 as stated: whatever max_vocabulary_size is, the four reserved symbols
\* are all in the written vocabulary.
C4_ReservedAlwaysPresent ==
  Written => \A i \in 1..4 : _START_VOCAB[i] \in Entries

\* C4 amended: with max_vocabulary_size >= 4 all four reserved symbols are in
\* the written vocabulary; with max_vocabulary_size < 4 the written vocabulary
\* is exactly the first max_vocabulary_size reserved symbols.
C4_ReservedPresentFromFour ==
  Written =>
    /\ max_vocabulary_size >= 4 => \A i \in 1..4 : _START_VOCAB[i] \in Entries
    /\ max_vocabulary_size < 4 =>
         /\ Len(vocab_file) = max_vocabulary_size
         /\ \A i \in DOMAIN vocab_file : Entry(i) = _START_VOCAB[i]

C4_Witness ==
  /\ pc = "written"
  /\ max_vocabulary_size \in 1..3
  /\ DistinctTokenCount >= 1
  /\ _UNK \notin Entries

\* C5: the written vocabulary has min(max_vocabulary_size, 4 + number of
\* distinct (normalized) corpus tokens) entries, so never more than
\* max_vocabulary_size.
C5_Length ==
  Written =>
    /\ Len(vocab_file) = Min(max_vocabulary_size, 4 + DistinctTokenCount)
    /\ Len(vocab_file) <= max_vocabulary_size

C5_Witness ==
  /\ pc = "written"
  /\ normalize_digits
  /\ corpus_count[<<"a", "0">>] >= 2
  /\ 4 + DistinctTokenCount > max_vocabulary_size
  /\ max_vocabulary_size > 4

\* Every corpus word is ranked or dropped; a dropped one has no higher count
\* than a ranked one, and a ranked one with a higher count comes first.
DescendingCount ==
  /\ \A i \in RankedPositions : corpus_count[Entry(i)] > 0
  /\ \A i, j \in RankedPositions :
       corpus_count[Entry(i)] > corpus_count[Entry(j)] => i < j
  /\ \A w \in AllWords : \A j \in RankedPositions :
       (corpus_count[w] > 0 /\ \A i \in RankedPositions : Entry(i) # w)
         => corpus_count[w] <= corpus_count[Entry(j)]

FirstSeenAt(w) == CHOOSE k \in DOMAIN first_seen : first_seen[k] = w

TiesInFirstSeenOrder ==
  \A i, j \in RankedPositions :
    (/\ corpus_count[Entry(i)] = corpus_count[Entry(j)]
     /\ FirstSeenAt(Entry(i)) < FirstSeenAt(Entry(j))) => i < j

C7_ExactInverses ==
  pc = "loaded" =>
    /\ \A i, j \in DOMAIN rev_vocab : i # j => rev_vocab[i] # rev_vocab[j]
    /\ \A i \in DOMAIN rev_vocab :
         rev_vocab[i] \in Keys(vocab_ids) /\ Get(vocab_ids, rev_vocab[i]) = i - 1
    /\ \A t \in Keys(vocab_ids) :
         /\ Get(vocab_ids, t) + 1 \in DOMAIN rev_vocab
         /\ rev_vocab[Get(vocab_ids, t) + 1] = t

(***************************************************************************)
(* Properties of ids_to_tokens.                                            *)
(***************************************************************************)
\* A decoded sentence has been processed to its end and its line written.
LineDone == pc \in {"next_line", "closed"} /\ line # None

\* The first position (from 1) of ids holding _EOS; Len(ids) + 1 if none does.
FirstEOS(ids) ==
  IF \E i \in DOMAIN ids : ids[i] = EOS_ID
  THEN CHOOSE i \in DOMAIN ids :
         ids[i] = EOS_ID /\ \A j \in 1..(i - 1) : ids[j] # EOS_ID
  ELSE Len(ids) + 1

RECURSIVE Flatten(_)
Flatten(ss) == IF ss = <<>> THEN <<>> ELSE Head(ss) \o Flatten(Tail(ss))

\* C1: the first _EOS of a decoded line ends it: no word is emitted for that
\* position or a later one, and the line written is the words of the
\* positions before it, joined by spaces.
C1_TruncatesAtEOS ==
  LineDone =>
    /\ \A i \in DOMAIN emitted : i >= FirstEOS(word_idxs) => emitted[i] = <<>>
    /\ sent = Join(Flatten(SubSeq(emitted, 1, FirstEOS(word_idxs) - 1))) \o NL

\* The smallest source index (from 1) with the maximum weight of a row.
MaxAttention(dist) ==
  CHOOSE p \in DOMAIN dist :
    /\ \A q \in DOMAIN dist : dist[q] <= dist[p]
    /\ \A q \in 1..(p - 1) : dist[q] # dist[p]

\* The reversed source tokens the line being processed is resolved against:
\* those of the sentence with as many sentences before it as lines has
\* decoded sentences before this line.
SourceOfLine == test_source_orig_tok[lines_read - null_read]

\* C2: every position holding _UNK emits "_UNK" without a translation table;
\* with one, the table's first candidate for the source token at the first
\* maximum of the position's attention row, or that token when the table lacks
\* it.  Every position holding neither 2 nor 3 emits the vocabulary's word.
C2_WordPerPosition ==
  line # None =>
    \A i \in DOMAIN word_idxs :
      /\ word_idxs[i] = UNK_ID =>
           emitted[i] =
             IF ttable = None THEN <<_UNK>>
             ELSE LET s == SourceOfLine[MaxAttention(attention_history[i])]
                  IN IF s \in Keys(ttable) THEN <<Get(ttable, s)[1]>> ELSE <<s>>
      /\ word_idxs[i] \notin {EOS_ID, UNK_ID} =>
           emitted[i] = <<ToVocab[word_idxs[i] + 1]>>

C2_Witness ==
  /\ LineDone
  /\ ttable # None
  /\ null_read = 0
  /\ \E i, j, k \in DOMAIN word_idxs :
       /\ word_idxs[i] = UNK_ID
       /\ attention_history[i] = [p \in 1..SrcLen |-> 2]
       /\ emitted[i] = <<test_source_orig_tok[1][1]>>
       /\ word_idxs[j] = UNK_ID
       /\ emitted[j] \in {<<Candidates(w)[1]>> : w \in Keys(ttable)}
       /\ word_idxs[k] = 4
       /\ emitted[k] = << <<"a">> >>

\* C11: with a translation table, an _UNK of the decoded line at input
\* position k is resolved against the reversed source tokens at position k
\* of test_source_orig_tok, whatever null lines came before it, and every
\* input line, null or not, has given exactly one output line, in input order.
C11_OwnSourceSentence ==
  /\ dest_count = (IF pc = "in_line" THEN lines_read - 1 ELSE lines_read)
  /\ (line # None /\ ttable # None) =>
       \A i \in DOMAIN word_idxs :
         word_idxs[i] = UNK_ID =>
           emitted[i] =
             LET s == test_source_orig_tok[lines_read]
                        [MaxAttention(attention_history[i])]
             IN IF s \in Keys(ttable) THEN <<Get(ttable, s)[1]>> ELSE <<s>>

(***************************************************************************)
(* Properties of frequency and output_weight.                              *)
(***************************************************************************)
Analyzed == pc \in {"weights_written", "ZeroDivisionError"}

\* The count the analysis is to give an id, and the total.
CountOf(id) == occurrences[id] + (IF id = EOS_ID THEN file_lines ELSE 0)
RECURSIVE SumOver(_, _)
SumOver(f, ks) ==
  IF ks = {} THEN 0
  ELSE LET k == CHOOSE k \in ks : TRUE IN f[k] + SumOver(f, ks \ {k})
Total == SumOver(occurrences, FileIds) + file_lines

WeightOf(id) == Get(weight_file, id)

\* C8: for every ids file the analysis ends with a weight for every counted
\* id: count(id) = occurrences of id, plus the number of lines for id 2;
\* total = ids + lines; weight(id) * count(id) = total with count(id) >= 1, so
\* weight(id) >= 1, and a smaller count has a strictly larger weight.
C8_WeightTable ==
  Analyzed =>
    /\ pc = "weights_written"
    /\ Keys(freq) = {id \in FileIds : CountOf(id) > 0} \cup {EOS_ID}
    /\ \A id \in Keys(freq) : Get(freq, id) = CountOf(id)
    /\ Keys(weight_file) = Keys(freq)
    /\ \A id \in Keys(freq) :
         /\ CountOf(id) >= 1
         /\ WeightOf(id)[2] > 0
         /\ WeightOf(id)[1] * CountOf(id) = Total * WeightOf(id)[2]
         /\ WeightOf(id)[1] >= WeightOf(id)[2]
    /\ \A a, b \in Keys(freq) :
         CountOf(a) < CountOf(b) =>
           WeightOf(a)[1] * WeightOf(b)[2] > WeightOf(b)[1] * WeightOf(a)[2]

(***************************************************************************)
(* Properties of check_rare_weights.                                       *)
(***************************************************************************)
\* The columns of row i whose id has a weight.
KnownColumns(i) ==
  {j \in DOMAIN target_outputs[i] : target_outputs[i][j] \in Keys(vocab_weights)}

\* The raw-weight sum S of row i.
RawSum(i) ==
  RowSums(target_outputs[i], vocab_weights, EffectiveAlpha, log_weight)[1]

\* C9: a row with a known id whose raw-weight sum is 0 is detected: its known
\* positions get the weight 0 (or an error is raised, which the function
\* never does), and no position of any row gets an undefined value.
C9_ZeroSumDetected ==
  \A i \in 1..rows_done :
    /\ \A j \in DOMAIN new_weights[i] : IsFinite(new_weights[i][j])
    /\ (KnownColumns(i) # {} /\ RawSum(i) = Zero) =>
         \A j \in KnownColumns(i) : new_weights[i][j] = Zero

RECURSIVE SumColumns(_, _)
SumColumns(row, cols) ==
  IF cols = {} THEN Zero
  ELSE LET j == CHOOSE j \in cols : TRUE
       IN FAdd(row[j], SumColumns(row, cols \ {j}))

=============================================================================
